---- MODULE Spec2Model ----
(***************************************************************************)
(* Model of run.py: the batch that reads every input workbook in sorted    *)
(* name order, extracts the common fields and the data block of each, and  *)
(* appends the valid rows to the output template.                          *)
(*                                                                         *)
(* Cell values are records [kind, val]: kind is the Python type of the     *)
(* value openpyxl hands out, val the characters of str(value).  Texts are  *)
(* sequences of one-character strings.                                     *)
(*                                                                         *)
(* Spec and SpecWide are the batch (SpecWide over more kinds of input),    *)
(* SpecEtd is prep_etd and SpecRow the row validation applied on their own.*)
(***************************************************************************)
EXTENDS Integers, Sequences, FiniteSets, TLC

----------------------------------------------------------------------------
(* Configuration, run.py lines 11-13 *)

START_ROW_TEMPLATE == 7

DATA_BLOCK_START_ROW == 19

DATA_BLOCK_END_ROW == 1000

(* Bounds of the model *)

\* number of names the input directory can list
MaxFiles == 2

\* rows of the data block that can hold anything; the rows below them, down
\* to DATA_BLOCK_END_ROW, are beyond the sheet's used range and read as None
MaxDataRows == 2

----------------------------------------------------------------------------
(* Python values *)

None == [kind |-> "NoneType", val |-> <<"N", "o", "n", "e">>]

PyStr(s) == [kind |-> "str", val |-> s]

PyInt(s) == [kind |-> "int", val |-> s]

PyFloat(s) == [kind |-> "float", val |-> s]

PyBool(s) == [kind |-> "bool", val |-> s]

\* isinstance(v, str)
IsStr(v) == v.kind = "str"

\* isinstance(v, (int, float)); bool is a subclass of int
IsIntOrFloat(v) == v.kind \in {"int", "float", "bool"}

\* str(v)
str(v) == v.val

DigitChars == <<"0", "1", "2", "3", "4", "5", "6", "7", "8", "9">>

IsDigit(c) == \E k \in 1..10 : DigitChars[k] = c

DigitVal(c) == (CHOOSE k \in 1..10 : DigitChars[k] = c) - 1

\* A character is a string of one character.  A string of this notation holds
\* no character above U+00FF: such a character is written by its code point,
\* "U+3000", and counts as one character wherever it stands in a text.

\* the characters str.isspace() holds for, written as they are
WhitespaceLatin1 ==
  { "\t", \* U+0009 CHARACTER TABULATION
    "\n", \* U+000A LINE FEED
    "",  \* U+000B LINE TABULATION
    "\f", \* U+000C FORM FEED
    "\r", \* U+000D CARRIAGE RETURN
    "",  \* U+001C FILE SEPARATOR
    "",  \* U+001D GROUP SEPARATOR
    "",  \* U+001E RECORD SEPARATOR
    "",  \* U+001F UNIT SEPARATOR
    " ",  \* U+0020 SPACE
    "",  \* U+0085 NEXT LINE
    " "   \* U+00A0 NO-BREAK SPACE
  }

\* the characters str.isspace() holds for, written by their code points
WhitespaceAboveLatin1 ==
  { "U+1680", "U+2000", "U+2001", "U+2002", "U+2003", "U+2004", "U+2005",
    "U+2006", "U+2007", "U+2008", "U+2009", "U+200A", "U+2028", "U+2029",
    "U+202F", "U+205F", "U+3000" }

\* \s in a pattern over str and the characters str.strip() removes: both are
\* the characters str.isspace() holds for
IsSpace(c) == c \in WhitespaceLatin1 \cup WhitespaceAboveLatin1

RECURSIVE LStrip(_)
LStrip(s) == IF s # <<>> /\ IsSpace(Head(s)) THEN LStrip(Tail(s)) ELSE s

RECURSIVE RStrip(_)
RStrip(s) ==
  IF s # <<>> /\ IsSpace(s[Len(s)]) THEN RStrip(SubSeq(s, 1, Len(s) - 1)) ELSE s

\* val.strip()
Strip(s) == RStrip(LStrip(s))

----------------------------------------------------------------------------
(* prep_etd, run.py lines 20-50 *)

\* the characters at..at+n-1 of s exist and are all digits
DigitsAt(s, at, n) ==
  /\ at + n - 1 <= Len(s)
  /\ \A k \in at..(at + n - 1) : IsDigit(s[k])

CharAt(s, at, c) == at <= Len(s) /\ s[at] = c

RECURSIVE SkipSpaces(_, _)
\* \s* is greedy: the first position at or after `at` that holds no blank
SkipSpaces(s, at) ==
  IF at <= Len(s) /\ IsSpace(s[at]) THEN SkipSpaces(s, at + 1) ELSE at

RECURSIVE SkipToParen(_, _)
\* [^)]+ is greedy: the first position at or after `at` that holds ")",
\* Len(s) + 1 when there is none
SkipToParen(s, at) ==
  IF at <= Len(s) /\ s[at] # ")" THEN SkipToParen(s, at + 1) ELSE at

\* The rest of the pattern after the date group, which ends at dateEnd:
\* \.?\s*\(([^)]+)\) when optDot, \s*\(([^)]+)\) otherwise.
\* The set of [tagFrom, tagTo] the pattern can capture (empty or one element).
TailMatches(s, dateEnd, optDot) ==
  LET starts == {dateEnd + 1} \cup
                (IF optDot /\ CharAt(s, dateEnd + 1, ".") THEN {dateEnd + 2} ELSE {})
  IN  { [tagFrom |-> SkipSpaces(s, p) + 1,
         tagTo   |-> SkipToParen(s, SkipSpaces(s, p) + 1) - 1] :
          p \in { q \in starts :
                    /\ CharAt(s, SkipSpaces(s, q), "(")
                    /\ SkipToParen(s, SkipSpaces(s, q) + 1) > SkipSpaces(s, q) + 1
                    /\ SkipToParen(s, SkipSpaces(s, q) + 1) <= Len(s) } }

\* The matches of the pattern that start at position i:
\* ([0-9]{4}\.[0-9]{1,2}\.[0-9]{1,2}) then the tail
MatchesAt(s, i, optDot) ==
  UNION { { [dateFrom |-> i, dateTo |-> i + 5 + ml + dl, ml |-> ml, dl |-> dl,
             tagFrom |-> t.tagFrom, tagTo |-> t.tagTo] :
              t \in TailMatches(s, i + 5 + ml + dl, optDot) } :
          <<ml, dl>> \in { md \in (1..2) \X (1..2) :
                             /\ DigitsAt(s, i, 4)
                             /\ CharAt(s, i + 4, ".")
                             /\ DigitsAt(s, i + 5, md[1])
                             /\ CharAt(s, i + 5 + md[1], ".")
                             /\ DigitsAt(s, i + 6 + md[1], md[2]) } }

NoMatch == [dateFrom |-> 0, dateTo |-> 0, ml |-> 0, dl |-> 0, tagFrom |-> 0, tagTo |-> 0]

\* re.search: the leftmost position with a match, and there the match the
\* greedy quantifiers prefer (two digits before one)
re_search(s, optDot) ==
  LET hits == { i \in 1..Len(s) : MatchesAt(s, i, optDot) # {} }
  IN  IF hits = {} THEN NoMatch
      ELSE LET i  == CHOOSE h \in hits : \A g \in hits : h <= g
               ms == MatchesAt(s, i, optDot)
           IN  CHOOSE m \in ms :
                 \A n \in ms : m.ml > n.ml \/ (m.ml = n.ml /\ m.dl >= n.dl)

IsLeap(y) == y % 4 = 0 /\ (y % 100 # 0 \/ y % 400 = 0)

DaysInMonth(y, m) ==
  IF m = 2 THEN (IF IsLeap(y) THEN 29 ELSE 28)
  ELSE IF m \in {4, 6, 9, 11} THEN 30 ELSE 31

RECURSIVE ToNat(_)
ToNat(ds) ==
  IF ds = <<>> THEN 0
  ELSE 10 * ToNat(SubSeq(ds, 1, Len(ds) - 1)) + DigitVal(ds[Len(ds)])

ValueError == [Y |-> -1, m |-> -1, d |-> -1]

\* datetime.strptime(raw, "%Y.%m.%d") on a text of the shape the pattern
\* captured (four digits, ".", ml digits, ".", dl digits): %m takes
\* 1[0-2]|0[1-9]|[1-9], %d takes 3[01]|[12]\d|0[1-9]|[1-9], the whole text
\* must be consumed and the date must exist (years start at 1)
strptime(raw, ml, dl) ==
  LET Y == ToNat(SubSeq(raw, 1, 4))
      m == ToNat(SubSeq(raw, 6, 5 + ml))
      d == ToNat(SubSeq(raw, 7 + ml, 6 + ml + dl))
  IN  IF /\ m \in 1..12
         /\ d \in 1..31
         /\ Y >= 1
         /\ d <= DaysInMonth(Y, m)
      THEN [Y |-> Y, m |-> m, d |-> d]
      ELSE ValueError

MonthAbbr ==
  << <<"J", "a", "n">>, <<"F", "e", "b">>, <<"M", "a", "r">>, <<"A", "p", "r">>,
     <<"M", "a", "y">>, <<"J", "u", "n">>, <<"J", "u", "l">>, <<"A", "u", "g">>,
     <<"S", "e", "p">>, <<"O", "c", "t">>, <<"N", "o", "v">>, <<"D", "e", "c">> >>

\* date_obj.strftime("%d-%b"): the day on two digits, "-", the month's name
strftime(date) ==
  <<DigitChars[(date.d \div 10) + 1], DigitChars[(date.d % 10) + 1], "-">>
    \o MonthAbbr[date.m]

\* prep_etd giving up the tag with the date
prep_etd_drops_tag(data) ==
  IF ~IsStr(data) THEN <<None, None>>
  ELSE
    LET s      == data.val
        first  == re_search(s, TRUE)
        match  == IF first # NoMatch THEN first ELSE re_search(s, FALSE)
    IN  IF match = NoMatch THEN <<None, None>>
        ELSE
          LET date_str_raw == SubSeq(s, match.dateFrom, match.dateTo)
              ba_str       == PyStr(SubSeq(s, match.tagFrom, match.tagTo))
              date_obj     == strptime(date_str_raw, match.ml, match.dl)
          IN  IF date_obj = ValueError THEN <<None, None>>
              ELSE <<PyStr(strftime(date_obj)), ba_str>>

prep_etd(data) ==
  IF ~IsStr(data) THEN <<None, None>>
  ELSE
    LET s      == data.val
        first  == re_search(s, TRUE)
        match  == IF first # NoMatch THEN first ELSE re_search(s, FALSE)
    IN  IF match = NoMatch THEN <<None, None>>
        ELSE
          LET date_str_raw == SubSeq(s, match.dateFrom, match.dateTo)
              ba_str       == PyStr(SubSeq(s, match.tagFrom, match.tagTo))
              date_obj     == strptime(date_str_raw, match.ml, match.dl)
          IN  IF date_obj = ValueError THEN <<None, ba_str>>
              ELSE <<PyStr(strftime(date_obj)), ba_str>>

----------------------------------------------------------------------------
(* Row validation, run.py lines 179-190 *)

\* any(val is not None and (not isinstance(val, str) or val.strip()) for val in ...)
has_data(cells) ==
  \E k \in 1..4 :
    /\ cells[k] # None
    /\ (~IsStr(cells[k]) \/ Strip(cells[k].val) # <<>>)

\* price_is_numeric and sqnty_is_numeric
isValidNumeric(PRICE, SQNTY) == IsIntOrFloat(PRICE) /\ IsIntOrFloat(SQNTY)

----------------------------------------------------------------------------
(* What the batch reads: the inputs the model draws from *)

Chars_air == <<"2", "0", "2", "4", ".", "0", "8", ".", "0", "8", ".", "(", "A", "I", "R", ")">>

Chars_badmonth == <<"2", "0", "2", "4", ".", "1", "3", ".", "0", "8", ".", "(", "S", "E", "A", ")">>

\* a carriage return between the date and the tag
Chars_cr == <<"2", "0", "2", "4", ".", "0", "8", ".", "0", "8", "\r", "(", "A", "I", "R", ")">>

\* a workbook that opened: its sheet names, its I11 and its A22
HeaderSamples ==
  { [sheetnames |-> <<"Sheet1", "M32">>, I11 |-> PyStr(Chars_air),
     A22 |-> PyStr(<<"r", "m", "k">>)],
    [sheetnames |-> <<"M34">>, I11 |-> None, A22 |-> None],
    [sheetnames |-> <<"Sheet1", "M36">>, I11 |-> PyStr(Chars_badmonth),
     A22 |-> PyStr(<<"u", "r", "g", "e", "n", "t">>)] }

\* more of them: a number in I11, a text in I11 that holds no date, a text in
\* I11 whose date and tag a carriage return separates
WideHeaderSamples ==
  HeaderSamples \cup
  { [sheetnames |-> <<"M34">>, I11 |-> PyInt(<<"4", "5">>), A22 |-> None],
    [sheetnames |-> <<"M32">>, I11 |-> PyStr(<<"A", "I", "R">>), A22 |-> None],
    [sheetnames |-> <<"M38">>, I11 |-> PyStr(Chars_cr), A22 |-> None] }

\* a workbook that opened with no sheet at all
NoSheets == [sheetnames |-> <<>>, I11 |-> None, A22 |-> None]

\* columns G, H, I, J of one row: DETAIL, COLOR, PRICE, SQNTY
EmptyRow == <<None, None, None, None>>

\* nothing, a line item, a line item whose price is the text "50"
RowSamples ==
  { EmptyRow,
    <<PyStr(<<"k", "n", "i", "t">>), PyStr(<<"r", "e", "d">>), PyInt(<<"5", "0">>), PyFloat(<<"2", ".", "5">>)>>,
    <<PyStr(<<"k", "n", "i", "t">>), None, PyStr(<<"5", "0">>), PyInt(<<"3">>)>> }

\* more of them: blanks only (a carriage return and a line feed, a space and
\* an ideographic space), a boolean as price, a boolean as quantity, a quantity
\* alone
WideRowSamples ==
  RowSamples \cup
  { <<PyStr(<<"\r", "\n">>), PyStr(<<" ", "U+3000">>), None, None>>,
    <<PyStr(<<"k", "n", "i", "t">>), None, PyBool(<<"T", "r", "u", "e">>), PyInt(<<"3">>)>>,
    <<None, PyStr(<<"r", "e", "d">>), PyFloat(<<"2", ".", "5">>), PyBool(<<"F", "a", "l", "s", "e">>)>>,
    <<None, None, None, PyInt(<<"3">>)>> }

\* what load_workbook can raise: the file is gone, a part of the archive is
\* missing, the file is no archive, a part cannot be parsed
LoadExceptions == {"FileNotFoundError", "KeyError", "BadZipFile", "ValueError"}

\* what a read of a sheet through the open archive can raise
ReadExceptions == {"KeyError", "BadZipFile", "ValueError"}

\* the same, and the operating system losing the file under the archive
WideReadExceptions == ReadExceptions \cup {"FileNotFoundError"}

\* file names, by their rank in string order
FileNames == 1..MaxFiles

\* os.listdir gives the names in any order
Listings ==
  { s \in UNION { [1..n -> FileNames] : n \in 0..MaxFiles } :
      \A i, j \in DOMAIN s : i # j => s[i] # s[j] }

\* the listing taken as it comes
sorted_not(s) == s

RECURSIVE sorted(_)
\* sorted(input_files)
sorted(s) ==
  IF s = <<>> THEN <<>>
  ELSE LET k == CHOOSE i \in DOMAIN s : \A j \in DOMAIN s : s[i] <= s[j]
       IN  <<s[k]>> \o sorted(SubSeq(s, 1, k - 1) \o SubSeq(s, k + 1, Len(s)))

\* the last row of the data block that can hold anything
LastDataRow == DATA_BLOCK_START_ROW + MaxDataRows - 1

----------------------------------------------------------------------------
(* State *)

VARIABLES
  pc,                    \* where the script is
  files,                 \* sorted(input_files), the list the for of line 115 walks
  idx,                   \* how many names the for loop has taken
  workbook,              \* the file the name `workbook` is bound to, 0 when unbound
  open,                  \* the files whose workbook handle is open
  ORDER_NO, REMARK, ETD, BA,
  data_found_in_block, file_had_valid_data,
  r,                     \* the row of the scan
  current_output_row, processed_files_count,
  template_sheet,        \* the rows written to the template sheet
  save_calls,            \* calls of template_wb.save
  saved,                 \* the output file was written
  log,                   \* what has been reported since the loop took its last name
  book,                  \* bookkeeping: what each opened file held
  scanned,               \* bookkeeping: the rows read since the loop took its last name
  valid_rows_read,       \* bookkeeping: rows read that hold data and a number
                         \* (integer or real) as price and as quantity
  arg, ret               \* argument and result of a function applied on its own

vars ==
  <<pc, files, idx, workbook, open, ORDER_NO, REMARK, ETD, BA,
    data_found_in_block, file_had_valid_data, r, current_output_row,
    processed_files_count, template_sheet, save_calls, saved, log, book, scanned,
    valid_rows_read, arg, ret>>

\* the name the loop is at
filename == files[idx]

Msg(f, row, m) == [file |-> f, row |-> row, msg |-> m]

\* lines 112-115: the counters, and the list the loop is about to walk
Init ==
  /\ pc = "loop"
  /\ \E input_files \in Listings : files = sorted(input_files)
  /\ idx = 0
  /\ workbook = 0
  /\ open = {}
  /\ ORDER_NO = None /\ REMARK = None /\ ETD = None /\ BA = None
  /\ data_found_in_block = FALSE
  /\ file_had_valid_data = FALSE
  /\ r = 0
  /\ current_output_row = START_ROW_TEMPLATE
  /\ processed_files_count = 0
  /\ template_sheet = <<>>
  /\ save_calls = 0
  /\ saved = FALSE
  /\ log = {}
  /\ book = <<>>
  /\ scanned = <<>>
  /\ valid_rows_read = 0
  /\ arg = None
  /\ ret = None

----------------------------------------------------------------------------
(* The except clauses, lines 224-240 *)

\* lines 1-5 import openpyxl, re, datetime, os and logging: not zipfile
zipfile_imported == FALSE

\* The clause that takes an exception raised in the try block.  The clauses are
\* tried in order and each evaluates its class expression: zipfile.BadZipFile
\* raises NameError when the name zipfile is not bound, and an exception raised
\* there leaves the try statement.
HandlerFor(exc) ==
  IF exc = "FileNotFoundError" THEN "except FileNotFoundError"
  ELSE IF exc = "KeyError" THEN "except KeyError"
  ELSE IF ~zipfile_imported THEN "NameError"
  ELSE IF exc = "BadZipFile" THEN "except zipfile.BadZipFile"
  ELSE "except Exception"

\* the clauses that run: if 'workbook' in locals() and workbook: workbook.close()
ClosesWorkbook(h) ==
  h \in {"except KeyError", "except zipfile.BadZipFile", "except Exception"}

\* An exception exc leaves the try block of file f while `workbook` is bound to
\* wb, the handles in op are open and lg has been reported.
Except(exc, f, wb, op, lg) ==
  LET h == HandlerFor(exc)
  IN  /\ pc' = IF h = "NameError" THEN "crashed" ELSE "loop"
      /\ open' = IF ClosesWorkbook(h) /\ wb # 0 THEN op \ {wb} ELSE op
      /\ log' = IF h = "NameError" THEN lg ELSE lg \cup {Msg(f, 0, h)}

----------------------------------------------------------------------------
(* The batch loop, lines 115-240 *)

\* the loop has a next name to take
MoreFiles == pc = "loop" /\ idx < Len(files)

\* lines 115-118
NextFile ==
  /\ idx' = idx + 1
  /\ file_had_valid_data' = FALSE
  /\ scanned' = <<>>

\* ETD, BA without the reset of line 148
ExtractEtd_no_reset(etd_data, prevETD, prevBA) ==
  IF etd_data = None THEN <<prevETD, prevBA>> ELSE prep_etd(PyStr(str(etd_data)))

\* ETD, BA of lines 148-152
ExtractEtd(etd_data, prevETD, prevBA) ==
  IF etd_data = None THEN <<None, None>> ELSE prep_etd(PyStr(str(etd_data)))

\* the warnings of lines 149-159
EtdWarnings(f, etd_data, etd) ==
  IF etd_data = None THEN {Msg(f, 0, "I11 empty")}
  ELSE IF etd[1] = None /\ etd[2] = None THEN {Msg(f, 0, "ETD/BA failed")}
  ELSE IF etd[1] = None THEN {Msg(f, 0, "ETD failed")}
  ELSE IF etd[2] = None THEN {Msg(f, 0, "BA failed")}
  ELSE {}

\* line 123 raises
LoadRaises(exc) ==
  /\ MoreFiles
  /\ NextFile
  /\ Except(exc, files[idx + 1], workbook, open, {})
  /\ UNCHANGED <<files, workbook, ORDER_NO, REMARK, ETD, BA,
                 data_found_in_block, r, current_output_row,
                 processed_files_count, template_sheet, save_calls, saved,
                 book, valid_rows_read, arg, ret>>

\* lines 123-129: the workbook opens and has no sheet
LoadNoSheets ==
  /\ MoreFiles
  /\ NextFile
  /\ LET f == files[idx + 1]
     IN  /\ workbook' = f
         /\ open' = (open \cup {f}) \ {f}
         /\ log' = {Msg(f, 0, "no sheets")}
         /\ book' = (f :> NoSheets) @@ book
  /\ pc' = "loop"
  /\ UNCHANGED <<files, ORDER_NO, REMARK, ETD, BA, data_found_in_block, r,
                 current_output_row, processed_files_count, template_sheet,
                 save_calls, saved, valid_rows_read, arg, ret>>

\* lines 123-168: the workbook opens, holds h, and the common data is read
OpenFile(h) ==
  /\ MoreFiles
  /\ NextFile
  /\ LET f        == files[idx + 1]
         order_no == IF h.sheetnames # <<>>
                     THEN PyStr(h.sheetnames[Len(h.sheetnames)]) ELSE None
         etd      == ExtractEtd(h.I11, ETD, BA)
     IN  /\ workbook' = f
         /\ book' = (f :> h) @@ book
         /\ ORDER_NO' = order_no
         /\ IF order_no = None
            THEN /\ open' = open
                 /\ log' = {Msg(f, 0, "no ORDER_NO")}
                 /\ pc' = "loop"
                 /\ UNCHANGED <<REMARK, ETD, BA, data_found_in_block, r>>
            ELSE /\ open' = open \cup {f}
                 /\ REMARK' = h.A22
                 /\ ETD' = etd[1]
                 /\ BA' = etd[2]
                 /\ log' = EtdWarnings(f, h.I11, etd)
                 /\ data_found_in_block' = FALSE
                 /\ r' = DATA_BLOCK_START_ROW
                 /\ pc' = "scan"
  /\ UNCHANGED <<files, current_output_row, processed_files_count,
                 template_sheet, save_calls, saved, valid_rows_read, arg, ret>>

\* lines 123-146: the workbook opens and holds h, and reading I11 or A22 raises
HeaderRaises(h, exc) ==
  /\ MoreFiles
  /\ NextFile
  /\ LET f == files[idx + 1]
     IN  /\ workbook' = f
         /\ book' = (f :> h) @@ book
         /\ ORDER_NO' = PyStr(h.sheetnames[Len(h.sheetnames)])
         /\ Except(exc, f, f, open \cup {f}, {})
  /\ UNCHANGED <<files, REMARK, ETD, BA, data_found_in_block, r,
                 current_output_row, processed_files_count, template_sheet,
                 save_calls, saved, valid_rows_read, arg, ret>>

\* the cursor left where it is
AdvanceCursor_not(row) == row

\* current_output_row += 1, line 205
AdvanceCursor(row) == row + 1

\* lines 195-202: the record written at the cursor; file and row tell where
\* the record came from
OutputRow(cells, etd, ba, order_no, remark, f, row) ==
  [B |-> etd, C |-> ba, E |-> order_no, F |-> cells[2], G |-> cells[4],
   I |-> cells[3], K |-> cells[1], P |-> remark, file |-> f, row |-> row]

\* a cell that is not absent and, when a text, not blank
Present(v) == v # None /\ (v.kind = "str" => \E k \in DOMAIN v.val : ~IsSpace(v.val[k]))

\* a number in the sense of the specification: an integer or a real
IntrinsicallyNumeric(v) == v.kind \in {"int", "float"}

\* the rows the specification counts as valid input rows
CountsAsValid(cells) ==
  /\ \E k \in 1..4 : Present(cells[k])
  /\ IntrinsicallyNumeric(cells[3])
  /\ IntrinsicallyNumeric(cells[4])

\* lines 169-212: one row of the data block, holding cells
ScanRow(cells) ==
  /\ pc = "scan"
  /\ r <= LastDataRow
  /\ scanned' = Append(scanned, cells)
  /\ valid_rows_read' = valid_rows_read + (IF CountsAsValid(cells) THEN 1 ELSE 0)
  /\ IF has_data(cells)
     THEN /\ data_found_in_block' = TRUE
          /\ IF isValidNumeric(cells[3], cells[4])
             THEN /\ file_had_valid_data' = TRUE
                  /\ template_sheet' =
                       (current_output_row :>
                          OutputRow(cells, ETD, BA, ORDER_NO, REMARK, filename, r))
                       @@ template_sheet
                  /\ current_output_row' = AdvanceCursor(current_output_row)
                  /\ log' = log
             ELSE /\ log' = log \cup {Msg(filename, r, "row skipped")}
                  /\ UNCHANGED <<file_had_valid_data, template_sheet,
                                 current_output_row>>
     ELSE UNCHANGED <<data_found_in_block, file_had_valid_data, template_sheet,
                      current_output_row, log>>
  /\ r' = r + 1
  /\ UNCHANGED <<pc, files, idx, workbook, open, ORDER_NO, REMARK, ETD, BA,
                 processed_files_count, save_calls, saved, book, arg, ret>>

\* lines 172-175 raise
ScanRaises(exc) ==
  /\ pc = "scan"
  /\ r <= LastDataRow
  /\ Except(exc, filename, workbook, open, log)
  /\ UNCHANGED <<files, idx, workbook, ORDER_NO, REMARK, ETD, BA,
                 data_found_in_block, file_had_valid_data, r, current_output_row,
                 processed_files_count, template_sheet, save_calls, saved, book,
                 scanned, valid_rows_read, arg, ret>>

\* lines 169-212 for the rows below the used range: every cell reads as None,
\* has_data is false and the body does nothing
ScanTail ==
  /\ pc = "scan"
  /\ r > LastDataRow
  /\ r <= DATA_BLOCK_END_ROW
  /\ ~has_data(EmptyRow)
  /\ r' = DATA_BLOCK_END_ROW + 1
  /\ UNCHANGED <<pc, files, idx, workbook, open, ORDER_NO, REMARK, ETD, BA,
                 data_found_in_block, file_had_valid_data, current_output_row,
                 processed_files_count, template_sheet, save_calls, saved, log,
                 book, scanned, valid_rows_read, arg, ret>>

\* the warning of lines 214-218
SummaryWarnings(f, found, valid) ==
  IF ~found THEN {Msg(f, 0, "no data")}
  ELSE IF ~valid /\ found THEN {Msg(f, 0, "none valid")}
  ELSE {}

\* lines 214-222: the scan is over
FileSummary ==
  /\ pc = "scan"
  /\ r > DATA_BLOCK_END_ROW
  /\ log' = log \cup SummaryWarnings(filename, data_found_in_block, file_had_valid_data)
  /\ open' = open \ {workbook}
  /\ processed_files_count' = processed_files_count + 1
  /\ pc' = "loop"
  /\ UNCHANGED <<files, idx, workbook, ORDER_NO, REMARK, ETD, BA,
                 data_found_in_block, file_had_valid_data, r, current_output_row,
                 template_sheet, save_calls, saved, book, scanned, valid_rows_read, arg, ret>>

----------------------------------------------------------------------------
(* The final save, lines 243-255 *)

\* the save whatever was written
ShouldSave_always(row) == row >= START_ROW_TEMPLATE

\* line 243
ShouldSave(row) == row > START_ROW_TEMPLATE

\* what template_wb.save can do
SaveOutcomes == {"ok", "PermissionError", "OSError"}

FinalSave(outcome) ==
  /\ pc = "loop"
  /\ idx = Len(files)
  /\ IF ShouldSave(current_output_row)
     THEN /\ save_calls' = save_calls + 1
          /\ saved' = (outcome = "ok")
          /\ log' = log \cup {Msg(0, 0, IF outcome = "ok" THEN "saved"
                                         ELSE "save failed")}
     ELSE /\ outcome = "ok"               \* save is not called: nothing to fail
          /\ UNCHANGED <<save_calls, saved>>
          /\ log' = log \cup {Msg(0, 0, IF processed_files_count > 0
                                         THEN "not saved: no valid rows"
                                         ELSE "not saved: no files")}
  /\ pc' = "done"
  /\ UNCHANGED <<files, idx, workbook, open, ORDER_NO, REMARK, ETD, BA,
                 data_found_in_block, file_had_valid_data, r, current_output_row,
                 processed_files_count, template_sheet, book, scanned, valid_rows_read, arg, ret>>

\* the batch over the inputs Headers, Rows and the read failures Raised
Batch(Headers, Rows, Raised) ==
  \/ \E exc \in LoadExceptions : LoadRaises(exc)
  \/ LoadNoSheets
  \/ \E h \in Headers : OpenFile(h)
  \/ \E h \in Headers, exc \in Raised : HeaderRaises(h, exc)
  \/ \E cells \in Rows : ScanRow(cells)
  \/ \E exc \in Raised : ScanRaises(exc)
  \/ ScanTail
  \/ FileSummary
  \/ \E outcome \in SaveOutcomes : FinalSave(outcome)

Next == Batch(HeaderSamples, RowSamples, ReadExceptions)

Spec == Init /\ [][Next]_vars

NextWide == Batch(WideHeaderSamples, WideRowSamples, WideReadExceptions)

\* the batch over the wider inputs
SpecWide == Init /\ [][NextWide]_vars

----------------------------------------------------------------------------
(* prep_etd applied on its own *)

Pad2(n) == <<DigitChars[(n \div 10) + 1], DigitChars[(n % 10) + 1]>>

Pad4(n) == Pad2(n \div 100) \o Pad2(n % 100)

\* a day or month as it is typed: on two digits when padded or above 9
Typed(n, pad) == IF n < 10 /\ ~pad THEN <<DigitChars[n + 1]>> ELSE Pad2(n)

\* the texts prep_etd is applied to, by their parts
EtdTexts ==
  [ shape  : {"text"},
    prefix : {<<>>, <<"E", "T", "D", ":", " ">>, <<"1">>},
    y      : {2024, 2023, 0},
    m      : {0, 2, 8, 12, 13},
    mpad   : BOOLEAN,
    d      : {0, 8, 29, 30, 31, 32},
    dpad   : BOOLEAN,
    sep    : {<<>>, <<".">>, <<" ">>, <<".", " ">>, <<".", ".">>, <<" ", ".">>,
               <<"\r">>, <<".", "U+3000", "\f">>},
    tag    : {<<"A", "I", "R">>, <<>>, <<"S", "E", "A", " ", "2">>},
    close  : {<<")">>, <<>>},
    suffix : {<<>>, <<" ", "o", "k">>} ]

\* the values that are no text
EtdValues == { [shape |-> "value", value |-> v] : v \in {None, PyInt(<<"4", "5">>)} }

\* the argument the parts a stand for
EtdArg(a) ==
  IF a.shape = "value" THEN a.value
  ELSE PyStr(a.prefix \o Pad4(a.y) \o <<".">> \o Typed(a.m, a.mpad) \o <<".">>
             \o Typed(a.d, a.dpad) \o a.sep \o <<"(">> \o a.tag \o a.close
             \o a.suffix)

InitEtd ==
  /\ pc = "prep_etd"
  /\ arg \in EtdTexts \cup EtdValues
  /\ ret = None
  /\ files = <<>>
  /\ idx = 0
  /\ workbook = 0
  /\ open = {}
  /\ ORDER_NO = None /\ REMARK = None /\ ETD = None /\ BA = None
  /\ data_found_in_block = FALSE
  /\ file_had_valid_data = FALSE
  /\ r = 0
  /\ current_output_row = START_ROW_TEMPLATE
  /\ processed_files_count = 0
  /\ template_sheet = <<>>
  /\ save_calls = 0
  /\ saved = FALSE
  /\ log = {}
  /\ book = <<>>
  /\ scanned = <<>>
  /\ valid_rows_read = 0

CallPrepEtd ==
  /\ pc = "prep_etd"
  /\ ret' = prep_etd(EtdArg(arg))
  /\ pc' = "returned"
  /\ UNCHANGED <<files, idx, workbook, open, ORDER_NO, REMARK, ETD, BA,
                 data_found_in_block, file_had_valid_data, r, current_output_row,
                 processed_files_count, template_sheet, save_calls, saved, log,
                 book, scanned, valid_rows_read, arg>>

NextEtd == CallPrepEtd

SpecEtd == InitEtd /\ [][NextEtd]_vars

----------------------------------------------------------------------------
(* The row validation applied on its own *)

\* one value of each kind a cell can hold: absent, integer, real, boolean,
\* numeric-looking text, other text, blank text (a space and a tabulation, a
\* carriage return and a line feed)
CellKinds ==
  { None, PyInt(<<"5", "0">>), PyFloat(<<"2", ".", "5">>),
    PyBool(<<"T", "r", "u", "e">>), PyStr(<<"5", "0">>), PyStr(<<"r", "e", "d">>),
    PyStr(<<" ", "\t">>), PyStr(<<"\r", "\n">>) }

InitRow ==
  /\ pc = "validate"
  /\ arg \in {None, PyStr(<<"k", "n", "i", "t">>), PyStr(<<" ">>)}
               \X {None, PyStr(<<"r", "e", "d">>)} \X CellKinds \X CellKinds
  /\ ret = None
  /\ files = <<>>
  /\ idx = 0
  /\ workbook = 0
  /\ open = {}
  /\ ORDER_NO = None /\ REMARK = None /\ ETD = None /\ BA = None
  /\ data_found_in_block = FALSE
  /\ file_had_valid_data = FALSE
  /\ r = 0
  /\ current_output_row = START_ROW_TEMPLATE
  /\ processed_files_count = 0
  /\ template_sheet = <<>>
  /\ save_calls = 0
  /\ saved = FALSE
  /\ log = {}
  /\ book = <<>>
  /\ scanned = <<>>
  /\ valid_rows_read = 0

\* lines 179-190 on the cells arg
CallValidator ==
  /\ pc = "validate"
  /\ ret' = [has_data |-> has_data(arg),
             valid    |-> isValidNumeric(arg[3], arg[4])]
  /\ pc' = "validated"
  /\ UNCHANGED <<files, idx, workbook, open, ORDER_NO, REMARK, ETD, BA,
                 data_found_in_block, file_had_valid_data, r, current_output_row,
                 processed_files_count, template_sheet, save_calls, saved, log,
                 book, scanned, valid_rows_read, arg>>

NextRow == CallValidator

SpecRow == InitRow /\ [][NextRow]_vars

----------------------------------------------------------------------------
(* Properties *)

\* C1: no exception raised while one file is loaded or read leaves the batch
\* loop: the file is skipped and the loop goes on to the final save.
PerFileIsolation == pc # "crashed"

\* C2: isValidNumeric(price, qty) is true exactly when price and quantity are
\* both an integer or a real; a boolean or a text in either place makes it false.
NumericIffIntrinsic ==
  pc = "validated" =>
    (ret.valid <=> (IntrinsicallyNumeric(arg[3]) /\ IntrinsicallyNumeric(arg[4])))

\* C3: when the batch is over, the rows written (cursor minus starting row) are
\* as many as the input rows read that hold data and a number as price and as
\* quantity.
OutputCountIsValidInputCount ==
  pc = "done" => current_output_row - START_ROW_TEMPLATE = valid_rows_read

\* a row is written at the cursor by the step, from the row the scan is at
WritesAtCursor ==
  /\ pc = "scan"
  /\ DOMAIN template_sheet' = DOMAIN template_sheet \cup {current_output_row}
  /\ current_output_row \notin DOMAIN template_sheet
  /\ template_sheet'[current_output_row].file = filename
  /\ template_sheet'[current_output_row].row = r

\* the step reads a row that the validation accepts
ReadsAcceptedRow ==
  /\ Len(scanned') = Len(scanned) + 1
  /\ has_data(scanned'[Len(scanned')])
  /\ isValidNumeric(scanned'[Len(scanned')][3], scanned'[Len(scanned')][4])

\* C4: the cursor starts at row 7, moves by exactly one on each step that
\* accepts a row, which is written at the cursor, and on no other step; it never
\* goes back or restarts with a file; a row once written is never written
\* again, and the written rows are the rows from 7 to the cursor minus one.
CursorDiscipline ==
  /\ current_output_row = START_ROW_TEMPLATE
  /\ [](DOMAIN template_sheet = START_ROW_TEMPLATE..(current_output_row - 1))
  /\ [][ /\ \A k \in DOMAIN template_sheet :
              k \in DOMAIN template_sheet' /\ template_sheet'[k] = template_sheet[k]
         /\ IF ReadsAcceptedRow
            THEN current_output_row' = current_output_row + 1 /\ WritesAtCursor
            ELSE current_output_row' = current_output_row
                 /\ template_sheet' = template_sheet ]_vars

\* C4 witness: four rows written, two from each of two files
CursorAcrossFiles ==
  /\ pc = "done"
  /\ current_output_row = START_ROW_TEMPLATE + 4
  /\ template_sheet[START_ROW_TEMPLATE].file # template_sheet[START_ROW_TEMPLATE + 3].file

\* where a written row came from comes before
ReadBefore(a, b) == a.file < b.file \/ (a.file = b.file /\ a.row < b.row)

\* C5: of two written rows, the one read from the file whose name sorts
\* earlier, or from the same file and a smaller input row, is at the smaller
\* destination row.
OutputOrderStable ==
  \A i, j \in DOMAIN template_sheet :
    ReadBefore(template_sheet[i], template_sheet[j]) => i < j

\* C5 witness: two rows of one file followed by a row of the next
ThreeRowsTwoFiles ==
  /\ START_ROW_TEMPLATE + 2 \in DOMAIN template_sheet
  /\ template_sheet[START_ROW_TEMPLATE].file = template_sheet[START_ROW_TEMPLATE + 1].file
  /\ template_sheet[START_ROW_TEMPLATE].row < template_sheet[START_ROW_TEMPLATE + 1].row
  /\ template_sheet[START_ROW_TEMPLATE + 1].file < template_sheet[START_ROW_TEMPLATE + 2].file

\* C6: the handle of a file is closed whenever the loop is not inside that
\* file's processing, and inside it no handle of another file is open.
HandlesReleased ==
  /\ pc # "scan" => open = {}
  /\ pc = "scan" => open \subseteq {filename}

\* a reason for not saving has been reported
ReasonReported ==
  \E m \in log : m.msg \in {"not saved: no valid rows", "not saved: no files"}

\* C7: template_wb.save is called at most once and only when every name of the
\* list has been taken and dealt with; at that point it is called exactly when
\* the cursor is above row 7, and otherwise a reason is reported.
SaveOnceAtEnd ==
  /\ save_calls <= 1
  /\ saved => save_calls = 1
  /\ save_calls = 1 => pc = "done"
  /\ pc = "done" =>
       /\ idx = Len(files)
       /\ save_calls = 1 <=> current_output_row > START_ROW_TEMPLATE
       /\ current_output_row = START_ROW_TEMPLATE => ReasonReported

\* C7 witness: two files, one skipped and one processed, and the output saved
SavedAfterSkipAndProcess ==
  /\ pc = "done"
  /\ saved
  /\ Len(files) = 2
  /\ processed_files_count = 1

\* the dates that exist, among those the texts are made of
ExistingDates ==
  { <<y, m, 8>> : y \in {2023, 2024}, m \in {2, 8, 12} }
    \cup { <<y, m, d>> : y \in {2023, 2024}, m \in {8, 12}, d \in {29, 30, 31} }
    \cup { <<2024, 2, 29>> }

\* the pattern is there: the date, at most one dot, blanks, a tag in parentheses
PatternPresent(a) ==
  /\ a.sep \in {<<>>, <<".">>, <<" ">>, <<".", " ">>, <<"\r">>,
                <<".", "U+3000", "\f">>}
  /\ a.tag # <<>>
  /\ a.close = <<")">>

\* what the specification says prep_etd returns for the parts a
ExpectedEtd(a) ==
  IF a.shape = "value" THEN <<None, None>>
  ELSE IF ~PatternPresent(a) THEN <<None, None>>
  ELSE << IF <<a.y, a.m, a.d>> \in ExistingDates
          THEN PyStr(Pad2(a.d) \o <<"-">> \o MonthAbbr[a.m]) ELSE None,
          PyStr(a.tag) >>

TextOf(y, m, d) ==
  [shape |-> "text", prefix |-> <<>>, y |-> y, m |-> m, mpad |-> TRUE, d |-> d,
   dpad |-> TRUE, sep |-> <<".">>, tag |-> <<"A", "I", "R">>, close |-> <<")">>,
   suffix |-> <<>>]

\* C8: where the pattern is there, prep_etd returns the text in the parentheses
\* as the tag and the day and month of the date, or None when the date does
\* not exist; it returns (None, None) for what is no text and for a text
\* without the pattern.  "2024.08.08.(AIR)" gives ("08-Aug", "AIR") and
\* "2024.13.08.(AIR)" gives (None, "AIR").
TagParserResult ==
  pc = "returned" =>
    /\ ret = ExpectedEtd(arg)
    /\ arg = TextOf(2024, 8, 8) =>
         /\ EtdArg(arg) = PyStr(Chars_air)
         /\ ret = <<PyStr(<<"0", "8", "-", "A", "u", "g">>), PyStr(<<"A", "I", "R">>)>>
    /\ arg = TextOf(2024, 13, 8) =>
         ret = <<None, PyStr(<<"A", "I", "R">>)>>

\* C8 witness: the month 13 gave no date and the tag AIR
TagWithoutDate ==
  /\ pc = "returned"
  /\ arg = TextOf(2024, 13, 8)
  /\ ret = <<None, PyStr(<<"A", "I", "R">>)>>

\* the row the step read
RowRead == scanned'[Len(scanned')]

HoldsData(cells) == \E k \in 1..4 : Present(cells[k])

\* C9: a row without data is passed over in silence and counts neither as found
\* nor as invalid; a row with data whose price or quantity is no number is
\* reported, not written, and counts as found; when the scan of a file is over,
\* "no data" is reported exactly when no row held data and "none valid" exactly
\* when a row held data and no row of the file was written.
RowClassificationAndSummary ==
  [][ /\ Len(scanned') = Len(scanned) + 1 =>
           /\ ~HoldsData(RowRead) =>
                UNCHANGED <<log, template_sheet, current_output_row,
                            data_found_in_block, file_had_valid_data>>
           /\ (/\ HoldsData(RowRead)
               /\ ~(IntrinsicallyNumeric(RowRead[3]) /\ IntrinsicallyNumeric(RowRead[4])))
                => /\ Msg(filename, r, "row skipped") \in log'
                   /\ UNCHANGED <<template_sheet, current_output_row>>
                   /\ data_found_in_block'
      /\ processed_files_count' # processed_files_count =>
           /\ Msg(filename, 0, "no data") \in log'
                <=> \A k \in DOMAIN scanned : ~HoldsData(scanned[k])
           /\ Msg(filename, 0, "none valid") \in log'
                <=> /\ \E k \in DOMAIN scanned : HoldsData(scanned[k])
                    /\ \A k \in DOMAIN template_sheet : template_sheet[k].file # filename
    ]_vars

\* the four common fields of a file, by what the file held
ContextOf ==
  [ h \in WideHeaderSamples |->
      [B |-> IF h.I11 = None THEN None ELSE prep_etd(PyStr(str(h.I11)))[1],
       C |-> IF h.I11 = None THEN None ELSE prep_etd(PyStr(str(h.I11)))[2],
       E |-> PyStr(h.sheetnames[Len(h.sheetnames)]),
       P |-> h.A22] ]

ContextIn(row) == [B |-> row.B, C |-> row.C, E |-> row.E, P |-> row.P]

\* C10: every written row carries the date, tag, order number (last sheet name)
\* and remark of the file its input row was read from, so the rows of one file
\* agree on the four; where the file's I11 is empty, date and tag are None.
ContextUniformPerFile ==
  /\ \A k \in DOMAIN template_sheet :
       /\ template_sheet[k].file \in DOMAIN book
       /\ ContextIn(template_sheet[k]) = ContextOf[book[template_sheet[k].file]]
       /\ book[template_sheet[k].file].I11 = None =>
            template_sheet[k].B = None /\ template_sheet[k].C = None
  /\ \A i, j \in DOMAIN template_sheet :
       template_sheet[i].file = template_sheet[j].file =>
         ContextIn(template_sheet[i]) = ContextIn(template_sheet[j])

\* C10 witness: rows of a file with a date and a tag, then rows of a file whose
\* I11 is empty
EmptyI11AfterDatedFile ==
  \E i, j \in DOMAIN template_sheet :
    /\ i < j
    /\ template_sheet[i].file # template_sheet[j].file
    /\ template_sheet[i].B # None
    /\ book[template_sheet[j].file].I11 = None
    /\ template_sheet[j].B = None

====
